---------------------------- MODULE Spec2Model ----------------------------
(***************************************************************************)
(* Model of the HID-over-Bluetooth SDP codec: the decoder                  *)
(* (PartialConfiguration::from_sdp_xml), the finalizer                     *)
(* (TryFrom<PartialConfiguration> for Configuration) and the encoder       *)
(* (Configuration::to_sdp_tag).                                            *)
(*                                                                         *)
(* Representation.  Every tag of the tagged-value tree is a record with    *)
(* the same five fields, so that any two tags can be compared:             *)
(*   kind  the variant name                                                *)
(*   b     the value of a Boolean                                          *)
(*   n     the value of a UInt8 / UInt16 / Uuid (16-bit short form), or    *)
(*         the id of an Attribute                                          *)
(*   s     the code points of a Text, or the bytes of a RawText            *)
(*   c     the children of a Sequence / Record, or the single child of an  *)
(*         Attribute                                                       *)
(* Option<T> is a sequence of length 0 (None) or 1 (Some).  A String is    *)
(* the sequence of its code points, a Vec<u8> the sequence of its bytes.   *)
(***************************************************************************)
EXTENDS Integers, Sequences, FiniteSets, TLC

VARIABLES
    pc,                     \* position: which step runs next
    config,                 \* the Configuration handed to to_sdp_tag
    origin,                 \* the Configuration the caller first encoded
    tree,                   \* the parsed tag: handed to the decoder, made by the encoder
    attributes,             \* from_sdp_xml: the collected (id, child) list
    idx,                    \* from_sdp_xml: index of the next attribute of the loop
    partial_configuration,  \* from_sdp_xml: the draft being filled
    decoded,                \* what from_sdp_xml returned
    final,                  \* what Configuration::try_from returned
    cycles                  \* completed encode/decode/finalize cycles

vars == <<pc, config, origin, tree, attributes, idx, partial_configuration,
          decoded, final, cycles>>

---------------------------------------------------------------------------
(* Bounds of the model. *)

MaxRecordLen == 2     \* children of a decoded record
MaxDescriptors == 1   \* class_descriptors of an encoded Configuration
MaxLanguages == 1     \* additional_languages of an encoded Configuration
MaxCycles == 2        \* encode/decode/finalize repetitions
MaxElements == 3      \* elements of one entry of a decoded descriptor list

---------------------------------------------------------------------------
(* Option<T> *)

None == << >>
Some(v) == << v >>
is_some(o) == Len(o) > 0
unwrap(o) == o[1]

---------------------------------------------------------------------------
(* sdp_xml::Tag *)

TBoolean(v) == [kind |-> "Boolean", b |-> v, n |-> 0, s |-> << >>, c |-> << >>]
TUInt8(v) == [kind |-> "UInt8", b |-> FALSE, n |-> v, s |-> << >>, c |-> << >>]
TUInt16(v) == [kind |-> "UInt16", b |-> FALSE, n |-> v, s |-> << >>, c |-> << >>]
TText(v) == [kind |-> "Text", b |-> FALSE, n |-> 0, s |-> v, c |-> << >>]
TRawText(v) == [kind |-> "RawText", b |-> FALSE, n |-> 0, s |-> v, c |-> << >>]
TUuid(v) == [kind |-> "Uuid", b |-> FALSE, n |-> v, s |-> << >>, c |-> << >>]
TSequence(children) ==
    [kind |-> "Sequence", b |-> FALSE, n |-> 0, s |-> << >>, c |-> children]
TAttribute(id, child) ==
    [kind |-> "Attribute", b |-> FALSE, n |-> id, s |-> << >>, c |-> << child >>]
TRecord(children) ==
    [kind |-> "Record", b |-> FALSE, n |-> 0, s |-> << >>, c |-> children]

---------------------------------------------------------------------------
(* Attribute ids (hid_device_id::bluetooth::attribute_id), Bluetooth       *)
(* assigned numbers.                                                       *)

SERVICE_CLASS_ID_LIST == 1
PROTOCOL_DESCRIPTOR_LIST == 4
BROWSE_GROUP_LIST == 5
LANGUAGE_BASE_ATTRIBUTE_ID_LIST == 6
BLUETOOTH_PROFILE_DESCRIPTOR_LIST == 9
ADDITIONAL_PROTOCOL_DESCRIPTOR_LISTS == 13
SERVICE_NAME == 256
SERVICE_DESCRIPTION == 257
PROVIDER_NAME == 258
HID_PARSER_VERSION == 513
HID_DEVICE_SUBCLASS == 514
HID_COUNTRY_CODE == 515
HID_VIRTUAL_CABLE == 516
HID_RECONNECT_INITIATE == 517
HID_DESCRIPTOR_LIST == 518
HID_LANG_BASE_ATTRIBUTE == 519
HID_BATTERY_POWER == 521
HID_REMOTE_WAKE == 522
HID_SUPERVISION_TIMEOUT == 524
HID_NORMALLY_CONNECTABLE == 525
HID_BOOT_DEVICE == 526
HID_SSR_HOST_MAX_LATENCY == 527
HID_SSR_HOST_MIN_TIMEOUT == 528

(* Service class and protocol UUIDs (16-bit short form), PSM values. *)
ServiceClassHid == 4388               \* 0x1124
ServiceClassPublicBrowseGroup == 4098 \* 0x1002
L2CAP == 256                          \* 0x0100
HID_PROTOCOL == 17                    \* 0x0011
HID_CONTROL == 17                     \* 0x0011
HID_INTERRUPT == 19                   \* 0x0013

(* Base attribute id of the primary language (0x0100). *)
PrimaryLanguageBase == 256
(* The HID parser version the encoder always emits (0x0111). *)
ParserVersion == 273

---------------------------------------------------------------------------
(* from_sdp::Error.  Every error is a record with the same fields; the     *)
(* fields a variant does not carry keep their default.                     *)

ErrorOf(variant) ==
    [err |-> variant, attribute |-> 0, tag |-> None, expected |-> 0,
     actual |-> 0, name |-> ""]
NoError == ErrorOf("")
ExpectedAttribute(t) == [ErrorOf("ExpectedAttribute") EXCEPT !.tag = Some(t)]
ExpectedSequence(a, t) ==
    [ErrorOf("ExpectedSequence") EXCEPT !.attribute = a, !.tag = Some(t)]
ExpectedBoolean(a, t) ==
    [ErrorOf("ExpectedBoolean") EXCEPT !.attribute = a, !.tag = Some(t)]
ExpectedUInt8(a, t) ==
    [ErrorOf("ExpectedUInt8") EXCEPT !.attribute = a, !.tag = Some(t)]
ExpectedUInt16(a, t) ==
    [ErrorOf("ExpectedUInt16") EXCEPT !.attribute = a, !.tag = Some(t)]
ExpectedText(a, t) ==
    [ErrorOf("ExpectedText") EXCEPT !.attribute = a, !.tag = Some(t)]
ExpectedUuid(a, t) ==
    [ErrorOf("ExpectedUuid") EXCEPT !.attribute = a, !.tag = Some(t)]
UnexpectedSequenceLen(a, e, n) ==
    [ErrorOf("UnexpectedSequenceLen") EXCEPT
        !.attribute = a, !.expected = e, !.actual = n]
UnexpectedUuid(a, e, u) ==
    [ErrorOf("UnexpectedUuid") EXCEPT
        !.attribute = a, !.expected = e, !.actual = u]
DuplicateValue(a) == [ErrorOf("DuplicateValue") EXCEPT !.attribute = a]
DuplicateAttribute(a, label) ==
    [ErrorOf("DuplicateAttribute") EXCEPT !.attribute = a, !.name = label]
DuplicateDescriptorId == ErrorOf("DuplicateDescriptorId")
DuplicateDescriptorText == ErrorOf("DuplicateDescriptorText")
MissingRecord(label) == [ErrorOf("MissingRecord") EXCEPT !.name = label]
UnexpectedTag(t) == [ErrorOf("UnexpectedTag") EXCEPT !.tag = Some(t)]

(* Result<T>: value is meaningful only when ok. *)
Ok(v) == [ok |-> TRUE, value |-> v, err |-> NoError]
Err(e) == [ok |-> FALSE, value |-> 0, err |-> e]

---------------------------------------------------------------------------
(* The expect_* helpers. *)

expect_boolean(attribute, tag) ==
    IF tag.kind = "Boolean" THEN Ok(tag.b)
    ELSE Err(ExpectedBoolean(attribute, tag))

expect_uint8(attribute, tag) ==
    IF tag.kind = "UInt8" THEN Ok(tag.n)
    ELSE Err(ExpectedUInt8(attribute, tag))

expect_uint16(attribute, tag) ==
    IF tag.kind = "UInt16" THEN Ok(tag.n)
    ELSE Err(ExpectedUInt16(attribute, tag))

(* A faulty variant of expect_text: a RawText is taken as text. *)
expect_text_or_raw(attribute, tag) ==
    IF tag.kind \in { "Text", "RawText" } THEN Ok(tag.s)
    ELSE Err(ExpectedText(attribute, tag))

expect_text(attribute, tag) ==
    IF tag.kind = "Text" THEN Ok(tag.s)
    ELSE Err(ExpectedText(attribute, tag))

expect_sequence(attribute, tag) ==
    IF tag.kind = "Sequence" THEN Ok(tag.c)
    ELSE Err(ExpectedSequence(attribute, tag))

(* A faulty variant of expect_len: only a sequence that is too short is refused. *)
expect_len_at_least(attribute, sequence, len) ==
    IF Len(sequence) < len
    THEN Err(UnexpectedSequenceLen(attribute, len, Len(sequence)))
    ELSE Ok(0)

expect_len(attribute, sequence, len) ==
    IF Len(sequence) # len
    THEN Err(UnexpectedSequenceLen(attribute, len, Len(sequence)))
    ELSE Ok(0)

(* A faulty variant of expect_uuid: any Uuid is accepted. *)
expect_uuid_any(attribute, tag, expected) ==
    IF tag.kind = "Uuid" THEN Ok(0)
    ELSE Err(ExpectedUuid(attribute, tag))

expect_uuid(attribute, tag, expected) ==
    IF tag.kind = "Uuid"
    THEN IF expected = tag.n THEN Ok(0)
         ELSE Err(UnexpectedUuid(attribute, expected, tag.n))
    ELSE Err(ExpectedUuid(attribute, tag))

ExpectedRecord(t) == [ErrorOf("ExpectedRecord") EXCEPT !.tag = Some(t)]

---------------------------------------------------------------------------
(* PartialConfiguration, the draft.  Default: every scalar None, every     *)
(* list empty.                                                             *)

DefaultPartialConfiguration ==
    [primary_language |-> None,
     encoding |-> None,
     service_name |-> None,
     service_description |-> None,
     provider_name |-> None,
     version |-> None,
     hid_device_subclass |-> None,
     hid_country_code |-> None,
     hid_virtual_cable |-> None,
     hid_reconnect_initiate |-> None,
     hid_descriptor_list |-> << >>,
     hid_lang_base_id_list |-> << >>,
     hid_battery_power |-> None,
     hid_remote_wake |-> None,
     hid_supervision_timeout |-> None,
     hid_normally_connectable |-> None,
     hid_boot_device |-> None,
     hid_ssr_host_max_latency |-> None,
     hid_ssr_host_min_timeout |-> None]

ClassDescriptor(t, data) == [t |-> t, data |-> data]
LanguageBase(lang, b) == [language |-> lang, base |-> b]

(* What the handling of one attribute leaves: the draft as written so far  *)
(* and, when ok is FALSE, the error that `?` propagates.                   *)
Continue(pcfg) == [ok |-> TRUE, draft |-> pcfg, err |-> NoError]
Abort(pcfg, e) == [ok |-> FALSE, draft |-> pcfg, err |-> e]

(* A faulty variant of try_initialize_attribute: a second write silently replaces  *)
(* the first value.                                                        *)
try_initialize_attribute_overwrite(pcfg, field, value, attribute_id, attribute_name) ==
    Continue([pcfg EXCEPT ![field] = Some(value)])

try_initialize_attribute(pcfg, field, value, attribute_id, attribute_name) ==
    IF is_some(pcfg[field])
    THEN Abort(pcfg, DuplicateAttribute(attribute_id, attribute_name))
    ELSE Continue([pcfg EXCEPT ![field] = Some(value)])

(* A faulty variant of try_initialize: a second write silently replaces the *)
(* first value.                                                            *)
try_initialize_replace(attribute, dest, value) == Ok(Some(value))

try_initialize(attribute, dest, value) ==
    IF is_some(dest) THEN Err(DuplicateValue(attribute))
    ELSE Ok(Some(value))

(* String::into_bytes: the UTF-8 encoding of the code points. *)
Utf8(cp) ==
    IF cp < 128 THEN << cp >>
    ELSE IF cp < 2048 THEN << 192 + (cp \div 64), 128 + (cp % 64) >>
    ELSE IF cp < 65536
         THEN << 224 + (cp \div 4096), 128 + ((cp \div 64) % 64), 128 + (cp % 64) >>
         ELSE << 240 + (cp \div 262144), 128 + ((cp \div 4096) % 64),
                 128 + ((cp \div 64) % 64), 128 + (cp % 64) >>

RECURSIVE into_bytes(_)
into_bytes(text) ==
    IF text = << >> THEN << >>
    ELSE Utf8(Head(text)) \o into_bytes(Tail(text))

---------------------------------------------------------------------------
(* The arms of the match on the attribute id in from_sdp_xml. *)

(* An attribute whose value is one scalar: expect_<shape>, then            *)
(* try_initialize_attribute.                                               *)
ScalarAttribute(pcfg, field, expected, id, label) ==
    IF ~expected.ok THEN Abort(pcfg, expected.err)
    ELSE try_initialize_attribute(pcfg, field, expected.value, id, label)

(* A faulty variant of LanguageBaseAttributeIdListArm: the encoding is      *)
(* checked but not stored.                                                 *)
LanguageBaseAttributeIdListArm_lang_only(pcfg, id, child) ==
    LET language_base_attribute_id == expect_sequence(id, child) IN
    IF ~language_base_attribute_id.ok
    THEN Abort(pcfg, language_base_attribute_id.err)
    ELSE
    LET len == expect_len(id, language_base_attribute_id.value, 3) IN
    IF ~len.ok THEN Abort(pcfg, len.err)
    ELSE
    LET lang == expect_uint16(id, language_base_attribute_id.value[1]) IN
    IF ~lang.ok THEN Abort(pcfg, lang.err)
    ELSE
    LET encoding == expect_uint16(id, language_base_attribute_id.value[2]) IN
    IF ~encoding.ok THEN Abort(pcfg, encoding.err)
    ELSE try_initialize_attribute(pcfg, "primary_language", lang.value,
             id, "Language Base Attribute ID List")

LanguageBaseAttributeIdListArm(pcfg, id, child) ==
    LET language_base_attribute_id == expect_sequence(id, child) IN
    IF ~language_base_attribute_id.ok
    THEN Abort(pcfg, language_base_attribute_id.err)
    ELSE
    LET len == expect_len(id, language_base_attribute_id.value, 3) IN
    IF ~len.ok THEN Abort(pcfg, len.err)
    ELSE
    LET lang == expect_uint16(id, language_base_attribute_id.value[1]) IN
    IF ~lang.ok THEN Abort(pcfg, lang.err)
    ELSE
    LET encoding == expect_uint16(id, language_base_attribute_id.value[2]) IN
    IF ~encoding.ok THEN Abort(pcfg, encoding.err)
    ELSE
    LET first == try_initialize_attribute(pcfg, "primary_language", lang.value,
                     id, "Language Base Attribute ID List") IN
    IF ~first.ok THEN first
    ELSE try_initialize_attribute(first.draft, "encoding", encoding.value,
             id, "Language Base Attribute ID List")

BluetoothProfileDescriptorListArm(pcfg, id, child) ==
    LET seq_1_children == expect_sequence(id, child) IN
    IF ~seq_1_children.ok THEN Abort(pcfg, seq_1_children.err)
    ELSE
    LET len_1 == expect_len(id, seq_1_children.value, 1) IN
    IF ~len_1.ok THEN Abort(pcfg, len_1.err)
    ELSE
    LET seq_2_children == expect_sequence(id, seq_1_children.value[1]) IN
    IF ~seq_2_children.ok THEN Abort(pcfg, seq_2_children.err)
    ELSE
    LET len_2 == expect_len(id, seq_2_children.value, 2) IN
    IF ~len_2.ok THEN Abort(pcfg, len_2.err)
    ELSE
    LET uuid == expect_uuid(id, seq_2_children.value[1], ServiceClassHid) IN
    IF ~uuid.ok THEN Abort(pcfg, uuid.err)
    ELSE
    LET version == expect_uint16(id, seq_2_children.value[2]) IN
    IF ~version.ok THEN Abort(pcfg, version.err)
    ELSE try_initialize_attribute(pcfg, "version", version.value,
             id, "Profile Descriptor List")

(* The inner loop over the elements of one descriptor entry, from element  *)
(* i on: the (descriptor_type, descriptor_value) pair found, or the error. *)
RECURSIVE ScanDescriptor(_, _, _, _, _)
ScanDescriptor(id, descriptor, i, descriptor_type, descriptor_value) ==
    IF i > Len(descriptor)
    THEN [ok |-> TRUE, t |-> descriptor_type, v |-> descriptor_value,
          err |-> NoError]
    ELSE
    LET element == descriptor[i]
        stop(e) == [ok |-> FALSE, t |-> descriptor_type,
                    v |-> descriptor_value, err |-> e]
    IN
    CASE element.kind = "UInt8" ->
            LET r == try_initialize(id, descriptor_type, element.n) IN
            IF ~r.ok THEN stop(DuplicateDescriptorId)
            ELSE ScanDescriptor(id, descriptor, i + 1, r.value, descriptor_value)
      [] element.kind = "Text" ->
            LET r == try_initialize(id, descriptor_value, into_bytes(element.s)) IN
            IF ~r.ok THEN stop(DuplicateDescriptorText)
            ELSE ScanDescriptor(id, descriptor, i + 1, descriptor_type, r.value)
      [] element.kind = "RawText" ->
            LET r == try_initialize(id, descriptor_value, element.s) IN
            IF ~r.ok THEN stop(DuplicateDescriptorText)
            ELSE ScanDescriptor(id, descriptor, i + 1, descriptor_type, r.value)
      [] OTHER -> stop(UnexpectedTag(element))

(* The loop over the entries of a HID descriptor list, from entry i on. *)
RECURSIVE DescriptorEntries(_, _, _, _)
DescriptorEntries(pcfg, id, maybe_descriptors, i) ==
    IF i > Len(maybe_descriptors) THEN Continue(pcfg)
    ELSE
    LET descriptor == expect_sequence(id, maybe_descriptors[i]) IN
    IF ~descriptor.ok THEN Abort(pcfg, descriptor.err)
    ELSE
    LET found == ScanDescriptor(id, descriptor.value, 1, None, None) IN
    IF ~found.ok THEN Abort(pcfg, found.err)
    ELSE IF ~is_some(found.t) THEN Abort(pcfg, MissingRecord("descriptor id"))
    ELSE IF ~is_some(found.v) THEN Abort(pcfg, MissingRecord("descriptor value"))
    ELSE DescriptorEntries(
             [pcfg EXCEPT !.hid_descriptor_list =
                 Append(@, ClassDescriptor(unwrap(found.t), unwrap(found.v)))],
             id, maybe_descriptors, i + 1)

HidDescriptorListArm(pcfg, id, child) ==
    LET maybe_descriptors == expect_sequence(id, child) IN
    IF ~maybe_descriptors.ok THEN Abort(pcfg, maybe_descriptors.err)
    ELSE DescriptorEntries(pcfg, id, maybe_descriptors.value, 1)

(* The loop over the entries of a HID language-base list, from entry i on. *)
RECURSIVE LangBaseEntries(_, _, _, _)
LangBaseEntries(pcfg, id, lang_base_id_list, i) ==
    IF i > Len(lang_base_id_list) THEN Continue(pcfg)
    ELSE
    LET lang_base_id == expect_sequence(id, lang_base_id_list[i]) IN
    IF ~lang_base_id.ok THEN Abort(pcfg, lang_base_id.err)
    ELSE
    LET len == expect_len(id, lang_base_id.value, 2) IN
    IF ~len.ok THEN Abort(pcfg, len.err)
    ELSE
    LET lang == expect_uint16(id, lang_base_id.value[1]) IN
    IF ~lang.ok THEN Abort(pcfg, lang.err)
    ELSE
    LET base == expect_uint16(id, lang_base_id.value[2]) IN
    IF ~base.ok THEN Abort(pcfg, base.err)
    ELSE LangBaseEntries(
             [pcfg EXCEPT !.hid_lang_base_id_list =
                 Append(@, LanguageBase(lang.value, base.value))],
             id, lang_base_id_list, i + 1)

(* A faulty variant of HidLangBaseAttributeArm: the entries of this         *)
(* attribute replace the ones gathered before.                             *)
HidLangBaseAttributeArm_replace(pcfg, id, child) ==
    LET lang_base_id_list == expect_sequence(id, child) IN
    IF ~lang_base_id_list.ok THEN Abort(pcfg, lang_base_id_list.err)
    ELSE LangBaseEntries([pcfg EXCEPT !.hid_lang_base_id_list = << >>],
             id, lang_base_id_list.value, 1)

HidLangBaseAttributeArm(pcfg, id, child) ==
    LET lang_base_id_list == expect_sequence(id, child) IN
    IF ~lang_base_id_list.ok THEN Abort(pcfg, lang_base_id_list.err)
    ELSE LangBaseEntries(pcfg, id, lang_base_id_list.value, 1)

(* A faulty variant of the default arm: an unknown attribute is a schema error. *)
OtherAttributeArm_reject(pcfg, id, child) ==
    Abort(pcfg, UnexpectedTag(TAttribute(id, child)))

(* `_ => ()`: any other attribute is ignored. *)
OtherAttributeArm(pcfg, id, child) == Continue(pcfg)

(* The body of the loop `for (id, child) in attributes`: the match on id. *)
DispatchAttribute(pcfg, id, child) ==
    CASE id = LANGUAGE_BASE_ATTRIBUTE_ID_LIST ->
            LanguageBaseAttributeIdListArm(pcfg, id, child)
      [] id = SERVICE_NAME ->
            ScalarAttribute(pcfg, "service_name", expect_text(id, child),
                id, "Service Name")
      [] id = SERVICE_DESCRIPTION ->
            ScalarAttribute(pcfg, "service_description", expect_text(id, child),
                id, "Service Description")
      [] id = PROVIDER_NAME ->
            ScalarAttribute(pcfg, "provider_name", expect_text(id, child),
                id, "Provider Name")
      [] id = BLUETOOTH_PROFILE_DESCRIPTOR_LIST ->
            BluetoothProfileDescriptorListArm(pcfg, id, child)
      [] id = HID_DEVICE_SUBCLASS ->
            ScalarAttribute(pcfg, "hid_device_subclass", expect_uint8(id, child),
                id, "HID Device Subclass")
      [] id = HID_COUNTRY_CODE ->
            ScalarAttribute(pcfg, "hid_country_code", expect_uint8(id, child),
                id, "HID Country Code")
      [] id = HID_VIRTUAL_CABLE ->
            ScalarAttribute(pcfg, "hid_virtual_cable", expect_boolean(id, child),
                id, "HID Virtual Cable")
      [] id = HID_RECONNECT_INITIATE ->
            ScalarAttribute(pcfg, "hid_reconnect_initiate", expect_boolean(id, child),
                id, "HID Reconnect Initiate")
      [] id = HID_DESCRIPTOR_LIST ->
            HidDescriptorListArm(pcfg, id, child)
      [] id = HID_LANG_BASE_ATTRIBUTE ->
            HidLangBaseAttributeArm(pcfg, id, child)
      [] id = HID_BATTERY_POWER ->
            ScalarAttribute(pcfg, "hid_battery_power", expect_boolean(id, child),
                id, "HID Battery Power")
      [] id = HID_REMOTE_WAKE ->
            ScalarAttribute(pcfg, "hid_remote_wake", expect_boolean(id, child),
                id, "HID Remote Wake")
      [] id = HID_SUPERVISION_TIMEOUT ->
            ScalarAttribute(pcfg, "hid_supervision_timeout", expect_uint16(id, child),
                id, "HID Supervision Timeout")
      [] id = HID_NORMALLY_CONNECTABLE ->
            ScalarAttribute(pcfg, "hid_normally_connectable", expect_boolean(id, child),
                id, "HID Normally Connectable")
      [] id = HID_BOOT_DEVICE ->
            ScalarAttribute(pcfg, "hid_boot_device", expect_boolean(id, child),
                id, "HID Boot Device")
      [] id = HID_SSR_HOST_MAX_LATENCY ->
            ScalarAttribute(pcfg, "hid_ssr_host_max_latency", expect_uint16(id, child),
                id, "HID SSR Host Max Latency")
      [] id = HID_SSR_HOST_MIN_TIMEOUT ->
            ScalarAttribute(pcfg, "hid_ssr_host_min_timeout", expect_uint16(id, child),
                id, "HID SSR Host Min Timeout")
      [] OTHER -> OtherAttributeArm(pcfg, id, child)

(* The conversion of the record's children to (id, child) pairs, from      *)
(* child i on: collect() into a Result stops at the first non-Attribute.   *)
RECURSIVE CollectFrom(_, _, _)
CollectFrom(maybe_attributes, i, acc) ==
    IF i > Len(maybe_attributes) THEN Ok(acc)
    ELSE LET tag == maybe_attributes[i] IN
         IF tag.kind = "Attribute"
         THEN CollectFrom(maybe_attributes, i + 1,
                  Append(acc, [id |-> tag.n, child |-> tag.c[1]]))
         ELSE Err(ExpectedAttribute(tag))

(* A faulty variant of CollectAttributes: non-Attribute children are skipped. *)
CollectAttributes_skip(maybe_attributes) ==
    Ok([i \in 1..Len(SelectSeq(maybe_attributes, LAMBDA t: t.kind = "Attribute")) |->
          LET tag == SelectSeq(maybe_attributes, LAMBDA t: t.kind = "Attribute")[i]
          IN [id |-> tag.n, child |-> tag.c[1]]])

CollectAttributes(maybe_attributes) == CollectFrom(maybe_attributes, 1, << >>)

(* The loop of from_sdp_xml from attribute i on, as one computation. *)
RECURSIVE DispatchFrom(_, _, _)
DispatchFrom(pcfg, attrs, i) ==
    IF i > Len(attrs) THEN Continue(pcfg)
    ELSE LET r == DispatchAttribute(pcfg, attrs[i].id, attrs[i].child) IN
         IF ~r.ok THEN r ELSE DispatchFrom(r.draft, attrs, i + 1)

(* What from_sdp_xml returns to its caller: Ok(draft) or Err(error).  The  *)
(* draft of a failed call is dropped; it reads as the default draft here.  *)
Returned(status, pcfg, e) == [status |-> status, draft |-> pcfg, err |-> e]
NotReturned == Returned("none", DefaultPartialConfiguration, NoError)
ReturnOk(pcfg) == Returned("ok", pcfg, NoError)
ReturnErr(e) == Returned("err", DefaultPartialConfiguration, e)

(* PartialConfiguration::from_sdp_xml on the parsed tag, as one            *)
(* computation.                                                            *)
from_sdp_xml(maybe_record) ==
    IF maybe_record.kind # "Record" THEN ReturnErr(ExpectedRecord(maybe_record))
    ELSE LET attributes_res == CollectAttributes(maybe_record.c) IN
         IF ~attributes_res.ok THEN ReturnErr(attributes_res.err)
         ELSE LET r == DispatchFrom(DefaultPartialConfiguration,
                           attributes_res.value, 1) IN
              IF r.ok THEN ReturnOk(r.draft) ELSE ReturnErr(r.err)

---------------------------------------------------------------------------
(* Configuration and TryFrom<PartialConfiguration> for Configuration. *)

LanguageCode(iso, hid) == [iso_code |-> iso, hid_code |-> hid]

DefaultConfiguration ==
    [primary_language |-> LanguageCode(0, 0),
     encoding |-> 0,
     service_name |-> None,
     service_description |-> None,
     provider_name |-> None,
     version |-> 0,
     hid |-> [device_subclass |-> 0,
              country_code |-> 0,
              virtual_cable |-> FALSE,
              reconnect_initiate |-> FALSE,
              class_descriptors |-> << >>,
              additional_languages |-> << >>,
              battery_power |-> None,
              remote_wake |-> None,
              supervision_timeout |-> None,
              normally_connectable |-> None,
              boot_device |-> FALSE,
              ssr_host_max_latency |-> None,
              ssr_host_min_timeout |-> None]]

(* Result<Configuration>: cfg is meaningful only when ok. *)
Finalized(cfg) == [status |-> "ok", cfg |-> cfg, err |-> NoError]
NotFinalized(e) == [status |-> "err", cfg |-> DefaultConfiguration, err |-> e]
NoFinal == [status |-> "none", cfg |-> DefaultConfiguration, err |-> NoError]

(* A faulty variant of slice_first: the last element. *)
slice_first_last(vec) == IF vec = << >> THEN None ELSE Some(vec[Len(vec)])

(* <[T]>::first: the first element, if any. *)
slice_first(vec) == IF vec = << >> THEN None ELSE Some(vec[1])

(* A faulty variant of try_from: the `?` on hid_boot_device is replaced by a       *)
(* default, so a missing boot device is not reported.                      *)
try_from_default_boot(p) ==
    IF ~is_some(p.primary_language) THEN NotFinalized(MissingRecord("primary language"))
    ELSE IF p.hid_lang_base_id_list = << >> THEN NotFinalized(MissingRecord("HID language"))
    ELSE IF ~is_some(p.encoding) THEN NotFinalized(MissingRecord("encoding"))
    ELSE IF ~is_some(p.version) THEN NotFinalized(MissingRecord("version"))
    ELSE IF ~is_some(p.hid_device_subclass)
         THEN NotFinalized(MissingRecord("device subclass"))
    ELSE IF ~is_some(p.hid_country_code)
         THEN NotFinalized(MissingRecord("country code"))
    ELSE IF ~is_some(p.hid_virtual_cable)
         THEN NotFinalized(MissingRecord("virtual cable"))
    ELSE IF ~is_some(p.hid_reconnect_initiate)
         THEN NotFinalized(MissingRecord("reconnect initiate"))
    ELSE Finalized(
        [primary_language |->
             LanguageCode(unwrap(p.primary_language),
                          p.hid_lang_base_id_list[1].language),
         encoding |-> unwrap(p.encoding),
         service_name |-> p.service_name,
         service_description |-> p.service_description,
         provider_name |-> p.provider_name,
         version |-> unwrap(p.version),
         hid |-> [device_subclass |-> unwrap(p.hid_device_subclass),
                  country_code |-> unwrap(p.hid_country_code),
                  virtual_cable |-> unwrap(p.hid_virtual_cable),
                  reconnect_initiate |-> unwrap(p.hid_reconnect_initiate),
                  class_descriptors |-> p.hid_descriptor_list,
                  additional_languages |-> p.hid_lang_base_id_list,
                  battery_power |-> p.hid_battery_power,
                  remote_wake |-> p.hid_remote_wake,
                  supervision_timeout |-> p.hid_supervision_timeout,
                  normally_connectable |-> p.hid_normally_connectable,
                  boot_device |-> IF is_some(p.hid_boot_device)
                                  THEN unwrap(p.hid_boot_device) ELSE FALSE,
                  ssr_host_max_latency |-> p.hid_ssr_host_max_latency,
                  ssr_host_min_timeout |-> p.hid_ssr_host_min_timeout]])

(* try_from: the `?` operators in evaluation order. *)
try_from(p) ==
    IF ~is_some(p.primary_language) THEN NotFinalized(MissingRecord("primary language"))
    ELSE IF ~is_some(slice_first(p.hid_lang_base_id_list))
         THEN NotFinalized(MissingRecord("HID language"))
    ELSE IF ~is_some(p.encoding) THEN NotFinalized(MissingRecord("encoding"))
    ELSE IF ~is_some(p.version) THEN NotFinalized(MissingRecord("version"))
    ELSE IF ~is_some(p.hid_device_subclass)
         THEN NotFinalized(MissingRecord("device subclass"))
    ELSE IF ~is_some(p.hid_country_code)
         THEN NotFinalized(MissingRecord("country code"))
    ELSE IF ~is_some(p.hid_virtual_cable)
         THEN NotFinalized(MissingRecord("virtual cable"))
    ELSE IF ~is_some(p.hid_reconnect_initiate)
         THEN NotFinalized(MissingRecord("reconnect initiate"))
    ELSE IF ~is_some(p.hid_boot_device)
         THEN NotFinalized(MissingRecord("boot device"))
    ELSE Finalized(
        [primary_language |->
             LanguageCode(unwrap(p.primary_language),
                          unwrap(slice_first(p.hid_lang_base_id_list)).language),
         encoding |-> unwrap(p.encoding),
         service_name |-> p.service_name,
         service_description |-> p.service_description,
         provider_name |-> p.provider_name,
         version |-> unwrap(p.version),
         hid |-> [device_subclass |-> unwrap(p.hid_device_subclass),
                  country_code |-> unwrap(p.hid_country_code),
                  virtual_cable |-> unwrap(p.hid_virtual_cable),
                  reconnect_initiate |-> unwrap(p.hid_reconnect_initiate),
                  class_descriptors |-> p.hid_descriptor_list,
                  additional_languages |-> p.hid_lang_base_id_list,
                  battery_power |-> p.hid_battery_power,
                  remote_wake |-> p.hid_remote_wake,
                  supervision_timeout |-> p.hid_supervision_timeout,
                  normally_connectable |-> p.hid_normally_connectable,
                  boot_device |-> unwrap(p.hid_boot_device),
                  ssr_host_max_latency |-> p.hid_ssr_host_max_latency,
                  ssr_host_min_timeout |-> p.hid_ssr_host_min_timeout]])

---------------------------------------------------------------------------
(* Configuration::to_sdp_tag.  Values convert to tags by their type: u8 to *)
(* UInt8, u16 to UInt16, bool to Boolean, String to Text, Uuid to Uuid, a  *)
(* tuple, array or Vec to Sequence, Tag::bytes to RawText.                 *)

(* Option<T> to Option<Tag>, by the conversion of T. *)
TextOf(field) == IF is_some(field) THEN Some(TText(unwrap(field))) ELSE None
BooleanOf(field) == IF is_some(field) THEN Some(TBoolean(unwrap(field))) ELSE None
UInt16Of(field) == IF is_some(field) THEN Some(TUInt16(unwrap(field))) ELSE None

(* A faulty variant of PushIfSome: an absent field is emitted as an attribute      *)
(* holding an empty sequence.                                              *)
PushIfSome_placeholder(id, value) ==
    IF is_some(value) THEN << TAttribute(id, unwrap(value)) >>
    ELSE << TAttribute(id, TSequence(<< >>)) >>

(* `if let Some(v) = field { attributes.push(Tag::attribute(id, v)) }` *)
PushIfSome(id, value) ==
    IF is_some(value) THEN << TAttribute(id, unwrap(value)) >>
    ELSE << >>

(* Service class id list, protocol descriptor list, browse group list. *)
FixedLeadingAttributes ==
    << TAttribute(SERVICE_CLASS_ID_LIST, TSequence(<< TUuid(ServiceClassHid) >>)),
       TAttribute(PROTOCOL_DESCRIPTOR_LIST,
           TSequence(<< TSequence(<< TUuid(L2CAP), TUInt16(HID_CONTROL) >>),
                        TSequence(<< TUuid(HID_PROTOCOL) >>) >>)),
       TAttribute(BROWSE_GROUP_LIST,
           TSequence(<< TUuid(ServiceClassPublicBrowseGroup) >>)) >>

LanguageBaseAttributeIdListAttribute(self) ==
    << TAttribute(LANGUAGE_BASE_ATTRIBUTE_ID_LIST,
           TSequence(<< TUInt16(self.primary_language.iso_code),
                        TUInt16(self.encoding),
                        TUInt16(PrimaryLanguageBase) >>)) >>

AdditionalProtocolDescriptorListsAttribute ==
    << TAttribute(ADDITIONAL_PROTOCOL_DESCRIPTOR_LISTS,
           TSequence(<< TSequence(<<
               TSequence(<< TUuid(L2CAP), TUInt16(HID_INTERRUPT) >>),
               TSequence(<< TUuid(HID_PROTOCOL) >>) >>) >>)) >>

(* A faulty variant of ServiceTextAttributes: provider name before service        *)
(* description.                                                            *)
ServiceTextAttributes_swapped(self) ==
    PushIfSome(SERVICE_NAME, TextOf(self.service_name))
    \o PushIfSome(PROVIDER_NAME, TextOf(self.provider_name))
    \o PushIfSome(SERVICE_DESCRIPTION, TextOf(self.service_description))

ServiceTextAttributes(self) ==
    PushIfSome(SERVICE_NAME, TextOf(self.service_name))
    \o PushIfSome(SERVICE_DESCRIPTION, TextOf(self.service_description))
    \o PushIfSome(PROVIDER_NAME, TextOf(self.provider_name))

ProfileDescriptorListAttribute(self) ==
    << TAttribute(BLUETOOTH_PROFILE_DESCRIPTOR_LIST,
           TSequence(<< TSequence(<< TUuid(ServiceClassHid),
                                     TUInt16(self.version) >>) >>)) >>

HidRequiredAttributes(self) ==
    << TAttribute(HID_PARSER_VERSION, TUInt16(ParserVersion)),
       TAttribute(HID_DEVICE_SUBCLASS, TUInt8(self.hid.device_subclass)),
       TAttribute(HID_COUNTRY_CODE, TUInt8(self.hid.country_code)),
       TAttribute(HID_VIRTUAL_CABLE, TBoolean(self.hid.virtual_cable)),
       TAttribute(HID_RECONNECT_INITIATE, TBoolean(self.hid.reconnect_initiate)) >>

HidDescriptorListAttribute(self) ==
    LET descriptor_list ==
            [i \in 1..Len(self.hid.class_descriptors) |->
                TSequence(<< TUInt8(self.hid.class_descriptors[i].t),
                             TRawText(self.hid.class_descriptors[i].data) >>)]
    IN << TAttribute(HID_DESCRIPTOR_LIST, TSequence(descriptor_list)) >>

(* A faulty variant of language_bases: the additional languages come first. *)
language_bases_primary_last(self) ==
    self.hid.additional_languages
    \o << LanguageBase(self.primary_language.hid_code, PrimaryLanguageBase) >>

(* A faulty variant of language_bases: an additional language equal to the  *)
(* primary entry is not emitted again.                                      *)
language_bases_no_repeat(self) ==
    LET primary == LanguageBase(self.primary_language.hid_code, PrimaryLanguageBase)
        Other(l) == l # primary
    IN << primary >> \o SelectSeq(self.hid.additional_languages, Other)

(* The vector language_bases: the primary language, then the additional    *)
(* languages.                                                              *)
language_bases(self) ==
    << LanguageBase(self.primary_language.hid_code, PrimaryLanguageBase) >>
    \o self.hid.additional_languages

HidLangBaseAttribute(self) ==
    << TAttribute(HID_LANG_BASE_ATTRIBUTE,
           TSequence([i \in 1..Len(language_bases(self)) |->
               TSequence(<< TUInt16(language_bases(self)[i].language),
                            TUInt16(language_bases(self)[i].base) >>)])) >>

HidTrailingAttributes(self) ==
    PushIfSome(HID_BATTERY_POWER, BooleanOf(self.hid.battery_power))
    \o PushIfSome(HID_REMOTE_WAKE, BooleanOf(self.hid.remote_wake))
    \o PushIfSome(HID_SUPERVISION_TIMEOUT, UInt16Of(self.hid.supervision_timeout))
    \o PushIfSome(HID_NORMALLY_CONNECTABLE, BooleanOf(self.hid.normally_connectable))
    \o << TAttribute(HID_BOOT_DEVICE, TBoolean(self.hid.boot_device)) >>
    \o PushIfSome(HID_SSR_HOST_MAX_LATENCY, UInt16Of(self.hid.ssr_host_max_latency))
    \o PushIfSome(HID_SSR_HOST_MIN_TIMEOUT, UInt16Of(self.hid.ssr_host_min_timeout))

to_sdp_tag(self) ==
    TRecord(FixedLeadingAttributes
            \o LanguageBaseAttributeIdListAttribute(self)
            \o AdditionalProtocolDescriptorListsAttribute
            \o ServiceTextAttributes(self)
            \o ProfileDescriptorListAttribute(self)
            \o HidRequiredAttributes(self)
            \o HidDescriptorListAttribute(self)
            \o HidLangBaseAttribute(self)
            \o HidTrailingAttributes(self))

---------------------------------------------------------------------------
(* Inputs. *)

SeqsUpTo(S, n) == UNION { [1..k -> S] : k \in 0..n }

(* "A" and "e-acute": the second takes two bytes in UTF-8. *)
TextA == << 65 >>
TextB == << 233 >>

(* language::ENGLISH and a second language. *)
LanguageCodes == { LanguageCode(25966, 1033), LanguageCode(26226, 1036) }

DescriptorValues == { ClassDescriptor(34, << 5, 1 >>), ClassDescriptor(35, << >>) }

(* The second entry repeats the primary entry of ENGLISH. *)
LanguageBaseValues == { LanguageBase(1036, 512), LanguageBase(1033, 256) }

OptionalFields ==
    { "service_name", "service_description", "provider_name", "battery_power",
      "remote_wake", "supervision_timeout", "normally_connectable",
      "ssr_host_max_latency", "ssr_host_min_timeout" }

(* Which optional fields are present: none, one, all but one, all. *)
PresenceMasks ==
    { m \in SUBSET OptionalFields :
        Cardinality(m) <= 1 \/ Cardinality(m) >= Cardinality(OptionalFields) - 1 }

(* Values of the scalar fields, required and optional. *)
ScalarProfiles ==
    { [encoding |-> 106, version |-> 257, device_subclass |-> 64,
       country_code |-> 0, virtual_cable |-> TRUE, reconnect_initiate |-> TRUE,
       boot_device |-> TRUE, service_name |-> TextA,
       service_description |-> TextB, provider_name |-> << 65, 233 >>,
       battery_power |-> TRUE, remote_wake |-> FALSE,
       supervision_timeout |-> 3200, normally_connectable |-> FALSE,
       ssr_host_max_latency |-> 1600, ssr_host_min_timeout |-> 800],
      [encoding |-> 3, version |-> 273, device_subclass |-> 128,
       country_code |-> 33, virtual_cable |-> FALSE, reconnect_initiate |-> TRUE,
       boot_device |-> FALSE, service_name |-> TextB,
       service_description |-> TextB, provider_name |-> << >>,
       battery_power |-> FALSE, remote_wake |-> TRUE,
       supervision_timeout |-> 0, normally_connectable |-> TRUE,
       ssr_host_max_latency |-> 65535, ssr_host_min_timeout |-> 65535],
      [encoding |-> 106, version |-> 256, device_subclass |-> 0,
       country_code |-> 255, virtual_cable |-> TRUE, reconnect_initiate |-> FALSE,
       boot_device |-> FALSE, service_name |-> TextA,
       service_description |-> TextA, provider_name |-> TextA,
       battery_power |-> TRUE, remote_wake |-> TRUE,
       supervision_timeout |-> 1, normally_connectable |-> TRUE,
       ssr_host_max_latency |-> 2, ssr_host_min_timeout |-> 2] }

Opt(present, field, v) == IF field \in present THEN Some(v) ELSE None

MakeConfiguration(lang, v, present, descriptors, languages) ==
    [primary_language |-> lang,
     encoding |-> v.encoding,
     service_name |-> Opt(present, "service_name", v.service_name),
     service_description |->
         Opt(present, "service_description", v.service_description),
     provider_name |-> Opt(present, "provider_name", v.provider_name),
     version |-> v.version,
     hid |-> [device_subclass |-> v.device_subclass,
              country_code |-> v.country_code,
              virtual_cable |-> v.virtual_cable,
              reconnect_initiate |-> v.reconnect_initiate,
              class_descriptors |-> descriptors,
              additional_languages |-> languages,
              battery_power |-> Opt(present, "battery_power", v.battery_power),
              remote_wake |-> Opt(present, "remote_wake", v.remote_wake),
              supervision_timeout |->
                  Opt(present, "supervision_timeout", v.supervision_timeout),
              normally_connectable |->
                  Opt(present, "normally_connectable", v.normally_connectable),
              boot_device |-> v.boot_device,
              ssr_host_max_latency |->
                  Opt(present, "ssr_host_max_latency", v.ssr_host_max_latency),
              ssr_host_min_timeout |->
                  Opt(present, "ssr_host_min_timeout", v.ssr_host_min_timeout)]]

Configurations ==
    { MakeConfiguration(lang, v, present, descriptors, languages) :
        lang \in LanguageCodes, v \in ScalarProfiles, present \in PresenceMasks,
        descriptors \in SeqsUpTo(DescriptorValues, MaxDescriptors),
        languages \in SeqsUpTo(LanguageBaseValues, MaxLanguages) }

(* Drafts handed to try_from: any combination of the required scalars, the *)
(* optional scalars all present or all absent, any two lists.              *)
RequiredFields ==
    { "primary_language", "encoding", "version", "hid_device_subclass",
      "hid_country_code", "hid_virtual_cable", "hid_reconnect_initiate",
      "hid_boot_device" }

MakeDraft(v, required, present, descriptors, languages) ==
    [primary_language |-> Opt(required, "primary_language", 25966),
     encoding |-> Opt(required, "encoding", v.encoding),
     service_name |-> Opt(present, "service_name", v.service_name),
     service_description |->
         Opt(present, "service_description", v.service_description),
     provider_name |-> Opt(present, "provider_name", v.provider_name),
     version |-> Opt(required, "version", v.version),
     hid_device_subclass |-> Opt(required, "hid_device_subclass", v.device_subclass),
     hid_country_code |-> Opt(required, "hid_country_code", v.country_code),
     hid_virtual_cable |-> Opt(required, "hid_virtual_cable", v.virtual_cable),
     hid_reconnect_initiate |->
         Opt(required, "hid_reconnect_initiate", v.reconnect_initiate),
     hid_descriptor_list |-> descriptors,
     hid_lang_base_id_list |-> languages,
     hid_battery_power |-> Opt(present, "battery_power", v.battery_power),
     hid_remote_wake |-> Opt(present, "remote_wake", v.remote_wake),
     hid_supervision_timeout |->
         Opt(present, "supervision_timeout", v.supervision_timeout),
     hid_normally_connectable |->
         Opt(present, "normally_connectable", v.normally_connectable),
     hid_boot_device |-> Opt(required, "hid_boot_device", v.boot_device),
     hid_ssr_host_max_latency |->
         Opt(present, "ssr_host_max_latency", v.ssr_host_max_latency),
     hid_ssr_host_min_timeout |->
         Opt(present, "ssr_host_min_timeout", v.ssr_host_min_timeout)]

Drafts ==
    { MakeDraft(v, required, present, descriptors, languages) :
        v \in ScalarProfiles, required \in SUBSET RequiredFields,
        present \in { {}, OptionalFields },
        descriptors \in SeqsUpTo(DescriptorValues, MaxDescriptors),
        languages \in SeqsUpTo(LanguageBaseValues, MaxLanguages + 1) }

(* Children of the records handed to the decoder. *)
LangList(elements) ==
    TAttribute(LANGUAGE_BASE_ATTRIBUTE_ID_LIST, TSequence(elements))
Profile(uuid, version) ==
    TAttribute(BLUETOOTH_PROFILE_DESCRIPTOR_LIST,
        TSequence(<< TSequence(<< TUuid(uuid), version >>) >>))

(* Well-formed attributes of the sixteen scalar ids; four ids with two     *)
(* values.                                                                 *)
WellFormedScalars ==
    { LangList(<< TUInt16(25966), TUInt16(106), TUInt16(256) >>),
      LangList(<< TUInt16(26226), TUInt16(3), TBoolean(TRUE) >>),
      TAttribute(SERVICE_NAME, TText(TextA)),
      TAttribute(SERVICE_NAME, TText(TextB)),
      TAttribute(SERVICE_DESCRIPTION, TText(TextB)),
      TAttribute(PROVIDER_NAME, TText(TextA)),
      Profile(ServiceClassHid, TUInt16(257)),
      Profile(ServiceClassHid, TUInt16(273)),
      TAttribute(HID_DEVICE_SUBCLASS, TUInt8(64)),
      TAttribute(HID_COUNTRY_CODE, TUInt8(33)),
      TAttribute(HID_VIRTUAL_CABLE, TBoolean(TRUE)),
      TAttribute(HID_RECONNECT_INITIATE, TBoolean(FALSE)),
      TAttribute(HID_BATTERY_POWER, TBoolean(TRUE)),
      TAttribute(HID_REMOTE_WAKE, TBoolean(FALSE)),
      TAttribute(HID_SUPERVISION_TIMEOUT, TUInt16(3200)),
      TAttribute(HID_NORMALLY_CONNECTABLE, TBoolean(TRUE)),
      TAttribute(HID_BOOT_DEVICE, TBoolean(TRUE)),
      TAttribute(HID_BOOT_DEVICE, TBoolean(FALSE)),
      TAttribute(HID_SSR_HOST_MAX_LATENCY, TUInt16(1600)),
      TAttribute(HID_SSR_HOST_MIN_TIMEOUT, TUInt16(800)) }

(* Attributes of the two list ids, well-formed. *)
WellFormedLists ==
    { TAttribute(HID_DESCRIPTOR_LIST, TSequence(<< >>)),
      TAttribute(HID_DESCRIPTOR_LIST,
          TSequence(<< TSequence(<< TUInt8(34), TRawText(<< 5, 1 >>) >>),
                       TSequence(<< TText(TextB), TUInt8(35) >>) >>)),
      TAttribute(HID_LANG_BASE_ATTRIBUTE,
          TSequence(<< TSequence(<< TUInt16(1033), TUInt16(256) >>) >>)),
      TAttribute(HID_LANG_BASE_ATTRIBUTE,
          TSequence(<< TSequence(<< TUInt16(1036), TUInt16(512) >>),
                       TSequence(<< TUInt16(1033), TUInt16(256) >>) >>)) }

(* Attributes whose id the decoder does not dispatch on. *)
UnknownAttributes ==
    { TAttribute(HID_PARSER_VERSION, TUInt16(ParserVersion)),
      TAttribute(SERVICE_CLASS_ID_LIST, TSequence(<< TUuid(ServiceClassHid) >>)),
      TAttribute(0, TBoolean(TRUE)),
      TAttribute(65535, TAttribute(SERVICE_NAME, TText(TextA))) }

(* Children in error: a child that is no Attribute, and known attributes   *)
(* with a wrong shape, arity or UUID.                                      *)
NonAttributes == { TUInt8(7), TSequence(<< TAttribute(SERVICE_NAME, TText(TextA)) >>) }

Malformed ==
    { LangList(<< >>),
      LangList(<< TUInt16(25966), TText(TextA) >>),
      LangList(<< TBoolean(TRUE), TUInt16(106), TUInt16(256), TUInt16(0) >>),
      LangList(<< TUInt16(25966), TText(TextA), TUInt16(256) >>),
      Profile(ServiceClassPublicBrowseGroup, TUInt16(257)),
      Profile(L2CAP, TBoolean(TRUE)),
      Profile(ServiceClassHid, TUInt8(1)),
      TAttribute(HID_DEVICE_SUBCLASS, TBoolean(TRUE)),
      TAttribute(SERVICE_NAME, TRawText(<< 65 >>)),
      TAttribute(HID_DESCRIPTOR_LIST,
          TSequence(<< TSequence(<< TUInt8(34), TRawText(<< 5 >>) >>),
                       TSequence(<< TUInt8(34) >>) >>)),
      TAttribute(HID_LANG_BASE_ATTRIBUTE,
          TSequence(<< TSequence(<< TUInt16(1036), TUInt16(512) >>),
                       TSequence(<< TUInt16(1033) >>) >>)) }

Children ==
    WellFormedScalars \cup WellFormedLists \cup UnknownAttributes
    \cup NonAttributes \cup Malformed

DecodeInputs ==
    { TRecord(children) : children \in SeqsUpTo(Children, MaxRecordLen) }
    \cup { TSequence(<< >>), TAttribute(SERVICE_NAME, TText(TextA)) }

(* Records of one attribute under test, alone or after a well-formed      *)
(* attribute of the same id.                                               *)

(* Elements of one descriptor entry: two type bytes, a Text and a RawText  *)
(* of the same bytes, another RawText, and two tags of other kinds.        *)
DescriptorElements ==
    { TUInt8(34), TUInt8(35), TText(TextB), TRawText(<< 195, 169 >>),
      TRawText(<< 5, 1 >>), TBoolean(TRUE), TUInt16(34) }

DescriptorEntryInputs ==
    { TSequence(elements) : elements \in SeqsUpTo(DescriptorElements, MaxElements) }

GoodDescriptor == TSequence(<< TUInt8(34), TRawText(<< 5, 1 >>) >>)

(* A descriptor list holding the entry alone, after a good entry, or      *)
(* before one.                                                             *)
DescriptorListInputs ==
    UNION { { TAttribute(HID_DESCRIPTOR_LIST, TSequence(<< d >>)),
              TAttribute(HID_DESCRIPTOR_LIST, TSequence(<< GoodDescriptor, d >>)),
              TAttribute(HID_DESCRIPTOR_LIST, TSequence(<< d, GoodDescriptor >>)) }
            : d \in DescriptorEntryInputs }

(* The ids the match in from_sdp_xml has an arm for. *)
KnownIds ==
    { LANGUAGE_BASE_ATTRIBUTE_ID_LIST, SERVICE_NAME, SERVICE_DESCRIPTION,
      PROVIDER_NAME, BLUETOOTH_PROFILE_DESCRIPTOR_LIST, HID_DEVICE_SUBCLASS,
      HID_COUNTRY_CODE, HID_VIRTUAL_CABLE, HID_RECONNECT_INITIATE,
      HID_DESCRIPTOR_LIST, HID_LANG_BASE_ATTRIBUTE, HID_BATTERY_POWER,
      HID_REMOTE_WAKE, HID_SUPERVISION_TIMEOUT, HID_NORMALLY_CONNECTABLE,
      HID_BOOT_DEVICE, HID_SSR_HOST_MAX_LATENCY, HID_SSR_HOST_MIN_TIMEOUT }

(* One tag of every kind. *)
ShapeValues ==
    { TBoolean(TRUE), TUInt8(1), TUInt16(1), TText(TextA), TRawText(<< 65 >>),
      TUuid(ServiceClassHid), TSequence(<< >>),
      TAttribute(SERVICE_NAME, TText(TextA)), TRecord(<< >>) }

ShapeInputs == { TAttribute(id, v) : id \in KnownIds, v \in ShapeValues }

AttributeInputs ==
    { TRecord(<< a >>) : a \in DescriptorListInputs \cup ShapeInputs }
    \cup UNION { { TRecord(<< w, a >>) : a \in { x \in ShapeInputs : x.n = w.n } }
                  : w \in WellFormedScalars \cup WellFormedLists }

---------------------------------------------------------------------------
(* The state machine. *)

Idle ==
    /\ origin = config
    /\ attributes = << >>
    /\ idx = 1
    /\ partial_configuration = DefaultPartialConfiguration
    /\ decoded = NotReturned
    /\ final = NoFinal
    /\ cycles = 0

(* A caller about to decode a parsed tag. *)
InitDecode ==
    /\ pc = "parse"
    /\ tree \in DecodeInputs
    /\ config = DefaultConfiguration
    /\ Idle

(* A caller about to decode a record of one attribute under test. *)
InitAttribute ==
    /\ pc = "parse"
    /\ tree \in AttributeInputs
    /\ config = DefaultConfiguration
    /\ Idle

(* A caller about to encode a Configuration. *)
InitCodec ==
    /\ pc = "encode"
    /\ config \in Configurations
    /\ tree = TRecord(<< >>)
    /\ Idle

(* A caller about to finalize a draft. *)
InitFinalize ==
    /\ pc = "draft"
    /\ config = DefaultConfiguration
    /\ origin = config
    /\ tree = TRecord(<< >>)
    /\ attributes = << >>
    /\ idx = 1
    /\ partial_configuration \in Drafts
    /\ decoded = NotReturned
    /\ final = NoFinal
    /\ cycles = 0

(* from_sdp_xml up to the loop: the draft is created, the tag is matched   *)
(* as a Record and its children are converted to (id, child) pairs.        *)
ParseRecord ==
    /\ pc = "parse"
    /\ partial_configuration' = DefaultPartialConfiguration
    /\ idx' = 1
    /\ IF tree.kind # "Record"
       THEN /\ decoded' = ReturnErr(ExpectedRecord(tree))
            /\ pc' = "returned"
            /\ UNCHANGED attributes
       ELSE LET attributes_res == CollectAttributes(tree.c) IN
            IF attributes_res.ok
            THEN /\ attributes' = attributes_res.value
                 /\ pc' = "loop"
                 /\ UNCHANGED decoded
            ELSE /\ decoded' = ReturnErr(attributes_res.err)
                 /\ pc' = "returned"
                 /\ UNCHANGED attributes
    /\ UNCHANGED <<config, origin, tree, final, cycles>>

(* One iteration of `for (id, child) in attributes`. *)
LoopBody ==
    /\ pc = "loop"
    /\ idx <= Len(attributes)
    /\ LET r == DispatchAttribute(partial_configuration,
                    attributes[idx].id, attributes[idx].child) IN
       /\ partial_configuration' = r.draft
       /\ IF r.ok
          THEN /\ idx' = idx + 1
               /\ UNCHANGED <<pc, decoded>>
          ELSE /\ decoded' = ReturnErr(r.err)
               /\ pc' = "returned"
               /\ UNCHANGED idx
    /\ UNCHANGED <<config, origin, tree, attributes, final, cycles>>

(* The loop is over: Ok(partial_configuration). *)
LoopExit ==
    /\ pc = "loop"
    /\ idx > Len(attributes)
    /\ decoded' = ReturnOk(partial_configuration)
    /\ pc' = "returned"
    /\ UNCHANGED <<config, origin, tree, attributes, idx,
                   partial_configuration, final, cycles>>

(* Configuration::try_from on the draft that from_sdp_xml returned. *)
Finalize ==
    /\ pc = "returned"
    /\ decoded.status = "ok"
    /\ final' = try_from(decoded.draft)
    /\ pc' = "finalized"
    /\ UNCHANGED <<config, origin, tree, attributes, idx,
                   partial_configuration, decoded, cycles>>

(* Configuration::try_from on a draft. *)
FinalizeDraft ==
    /\ pc = "draft"
    /\ final' = try_from(partial_configuration)
    /\ pc' = "finalized"
    /\ UNCHANGED <<config, origin, tree, attributes, idx,
                   partial_configuration, decoded, cycles>>

(* to_sdp_tag on the Configuration. *)
Encode ==
    /\ pc = "encode"
    /\ tree' = to_sdp_tag(config)
    /\ pc' = "decode"
    /\ UNCHANGED <<config, origin, attributes, idx, partial_configuration,
                   decoded, final, cycles>>

(* from_sdp_xml on the encoded record, as one step. *)
Decode ==
    /\ pc = "decode"
    /\ decoded' = from_sdp_xml(tree)
    /\ pc' = "returned"
    /\ UNCHANGED <<config, origin, tree, attributes, idx,
                   partial_configuration, final, cycles>>

(* The caller encodes the Configuration it got back. *)
EncodeAgain ==
    /\ pc = "finalized"
    /\ final.status = "ok"
    /\ cycles + 1 < MaxCycles
    /\ config' = final.cfg
    /\ cycles' = cycles + 1
    /\ tree' = to_sdp_tag(final.cfg)
    /\ decoded' = NotReturned
    /\ final' = NoFinal
    /\ pc' = "decode"
    /\ UNCHANGED <<origin, attributes, idx, partial_configuration>>

NextDecode == ParseRecord \/ LoopBody \/ LoopExit \/ Finalize
NextCodec == Encode \/ Decode \/ Finalize \/ EncodeAgain
NextFinalize == FinalizeDraft

(* Decoding a record, attribute by attribute, and finalizing the draft. *)
SpecDecode == InitDecode /\ [][NextDecode]_vars
(* The same, on the records of one attribute under test. *)
SpecAttribute == InitAttribute /\ [][NextDecode]_vars
(* Encode, decode, finalize, repeated. *)
SpecCodec == InitCodec /\ [][NextCodec]_vars
(* Finalizing a draft. *)
SpecFinalize == InitFinalize /\ [][NextFinalize]_vars

Init == InitDecode
Next == NextDecode
Spec == SpecDecode

---------------------------------------------------------------------------
(* Vocabulary of the properties. *)

(* The record's children with attribute a inserted after position pos. *)
InsertAt(children, pos, a) ==
    SubSeq(children, 1, pos) \o << a >> \o SubSeq(children, pos + 1, Len(children))

(* The attribute the loop of from_sdp_xml is about to handle. *)
AtAttribute == pc = "loop" /\ idx <= Len(attributes)
Current == attributes[idx]

(* from_sdp_xml returned an error raised by attribute number idx. *)
FailedAtAttribute ==
    pc = "returned" /\ decoded.status = "err" /\ idx <= Len(attributes)

ScalarIds ==
    { LANGUAGE_BASE_ATTRIBUTE_ID_LIST, SERVICE_NAME, SERVICE_DESCRIPTION,
      PROVIDER_NAME, BLUETOOTH_PROFILE_DESCRIPTOR_LIST, HID_DEVICE_SUBCLASS,
      HID_COUNTRY_CODE, HID_VIRTUAL_CABLE, HID_RECONNECT_INITIATE,
      HID_BATTERY_POWER, HID_REMOTE_WAKE, HID_SUPERVISION_TIMEOUT,
      HID_NORMALLY_CONNECTABLE, HID_BOOT_DEVICE, HID_SSR_HOST_MAX_LATENCY,
      HID_SSR_HOST_MIN_TIMEOUT }

(* The human-readable label of each scalar attribute. *)
ScalarLabel(id) ==
    CASE id = LANGUAGE_BASE_ATTRIBUTE_ID_LIST -> "Language Base Attribute ID List"
      [] id = SERVICE_NAME -> "Service Name"
      [] id = SERVICE_DESCRIPTION -> "Service Description"
      [] id = PROVIDER_NAME -> "Provider Name"
      [] id = BLUETOOTH_PROFILE_DESCRIPTOR_LIST -> "Profile Descriptor List"
      [] id = HID_DEVICE_SUBCLASS -> "HID Device Subclass"
      [] id = HID_COUNTRY_CODE -> "HID Country Code"
      [] id = HID_VIRTUAL_CABLE -> "HID Virtual Cable"
      [] id = HID_RECONNECT_INITIATE -> "HID Reconnect Initiate"
      [] id = HID_BATTERY_POWER -> "HID Battery Power"
      [] id = HID_REMOTE_WAKE -> "HID Remote Wake"
      [] id = HID_SUPERVISION_TIMEOUT -> "HID Supervision Timeout"
      [] id = HID_NORMALLY_CONNECTABLE -> "HID Normally Connectable"
      [] id = HID_BOOT_DEVICE -> "HID Boot Device"
      [] id = HID_SSR_HOST_MAX_LATENCY -> "HID SSR Host Max Latency"
      [] id = HID_SSR_HOST_MIN_TIMEOUT -> "HID SSR Host Min Timeout"

(* The shape a scalar attribute's value must have to be well-formed. *)
WellFormedScalar(id, child) ==
    CASE id = LANGUAGE_BASE_ATTRIBUTE_ID_LIST ->
            /\ child.kind = "Sequence"
            /\ Len(child.c) = 3
            /\ child.c[1].kind = "UInt16"
            /\ child.c[2].kind = "UInt16"
      [] id = BLUETOOTH_PROFILE_DESCRIPTOR_LIST ->
            /\ child.kind = "Sequence"
            /\ Len(child.c) = 1
            /\ child.c[1].kind = "Sequence"
            /\ Len(child.c[1].c) = 2
            /\ child.c[1].c[1] = TUuid(ServiceClassHid)
            /\ child.c[1].c[2].kind = "UInt16"
      [] id \in { SERVICE_NAME, SERVICE_DESCRIPTION, PROVIDER_NAME } ->
            child.kind = "Text"
      [] id \in { HID_DEVICE_SUBCLASS, HID_COUNTRY_CODE } ->
            child.kind = "UInt8"
      [] id \in { HID_VIRTUAL_CABLE, HID_RECONNECT_INITIATE, HID_BATTERY_POWER,
                  HID_REMOTE_WAKE, HID_NORMALLY_CONNECTABLE, HID_BOOT_DEVICE } ->
            child.kind = "Boolean"
      [] id \in { HID_SUPERVISION_TIMEOUT, HID_SSR_HOST_MAX_LATENCY,
                  HID_SSR_HOST_MIN_TIMEOUT } ->
            child.kind = "UInt16"
      [] OTHER -> FALSE

ScalarFields ==
    { "primary_language", "encoding", "service_name", "service_description",
      "provider_name", "version", "hid_device_subclass", "hid_country_code",
      "hid_virtual_cable", "hid_reconnect_initiate", "hid_battery_power",
      "hid_remote_wake", "hid_supervision_timeout", "hid_normally_connectable",
      "hid_boot_device", "hid_ssr_host_max_latency", "hid_ssr_host_min_timeout" }

(* The name try_from gives each required field of the draft. *)
RequiredName(field) ==
    CASE field = "primary_language" -> "primary language"
      [] field = "encoding" -> "encoding"
      [] field = "version" -> "version"
      [] field = "hid_device_subclass" -> "device subclass"
      [] field = "hid_country_code" -> "country code"
      [] field = "hid_virtual_cable" -> "virtual cable"
      [] field = "hid_reconnect_initiate" -> "reconnect initiate"
      [] field = "hid_boot_device" -> "boot device"

MissingRequired(p) == { f \in RequiredFields : ~is_some(p[f]) }

---------------------------------------------------------------------------
(* C1.  Round trip: decoding the record produced by to_sdp_tag(c) and      *)
(* finalizing the draft succeeds and yields a Configuration equal to c in  *)
(* every field, additional_languages included.                             *)
C1_RoundTrip ==
    pc = "finalized" => final.status = "ok" /\ final.cfg = config

(* What does round-trip: every field but hid.additional_languages. *)
C1_RoundTripButLanguages ==
    pc = "finalized" =>
        /\ final.status = "ok"
        /\ [final.cfg EXCEPT !.hid.additional_languages = << >>]
           = [config EXCEPT !.hid.additional_languages = << >>]

(* C2.  Duplicate scalar detection: when the decoder comes to a            *)
(* well-formed attribute of a scalar id that an earlier well-formed        *)
(* attribute of the record carried, it fails with DuplicateAttribute(id,   *)
(* label of that attribute), equal values or not; and no step of a decode  *)
(* changes a scalar field of the draft that is already set.                *)
C2_DuplicateStep ==
    /\ ( /\ AtAttribute
         /\ Current.id \in ScalarIds
         /\ WellFormedScalar(Current.id, Current.child)
         /\ \E i \in 1..(idx - 1) :
                /\ attributes[i].id = Current.id
                /\ WellFormedScalar(attributes[i].id, attributes[i].child) )
       => /\ pc' = "returned"
          /\ decoded' = ReturnErr(DuplicateAttribute(Current.id,
                                                     ScalarLabel(Current.id)))
          /\ partial_configuration' = partial_configuration
    /\ \A f \in ScalarFields :
           is_some(partial_configuration[f]) =>
               partial_configuration'[f] = partial_configuration[f]

C2_DuplicateScalar == [][C2_DuplicateStep]_vars

(* A record of two Service Name attributes with different values failed    *)
(* with the duplicate error.                                               *)
C2_Witness ==
    /\ FailedAtAttribute
    /\ tree.c = << TAttribute(SERVICE_NAME, TText(TextA)),
                   TAttribute(SERVICE_NAME, TText(TextB)) >>
    /\ decoded.err = DuplicateAttribute(SERVICE_NAME, "Service Name")
    /\ partial_configuration.service_name = Some(TextA)

(* C3.  Missing required field: finalizing a draft in which F is the only  *)
(* absent required scalar, with at least one language-base entry, fails    *)
(* with MissingRecord(name of F); a Configuration is returned only when    *)
(* all required scalars are present.                                       *)
C3_MissingRequired ==
    pc = "finalized" =>
        /\ \A f \in RequiredFields :
               ( /\ MissingRequired(partial_configuration) = { f }
                 /\ Len(partial_configuration.hid_lang_base_id_list) >= 1 )
               => final = NotFinalized(MissingRecord(RequiredName(f)))
        /\ final.status = "ok" => MissingRequired(partial_configuration) = {}

(* A draft lacking only the boot device was refused under that name. *)
C3_Witness ==
    /\ pc = "finalized"
    /\ MissingRequired(partial_configuration) = { "hid_boot_device" }
    /\ Len(partial_configuration.hid_lang_base_id_list) >= 1
    /\ final.err = MissingRecord("boot device")

(* C4.  Unknown-attribute tolerance: inserting an attribute of an id the   *)
(* decoder does not dispatch on, with a value of any shape, at any         *)
(* position of a record does not change what decode returns: the same      *)
(* draft, or the same error.                                               *)
C4_UnknownIgnored ==
    pc = "returned" /\ tree.kind = "Record" =>
        \A a \in UnknownAttributes : \A pos \in 0..Len(tree.c) :
            from_sdp_xml(TRecord(InsertAt(tree.c, pos, a))) = decoded

(* A record holding an unknown attribute and a known one decoded to a      *)
(* draft holding the known one.                                            *)
C4_Witness ==
    /\ pc = "returned"
    /\ decoded.status = "ok"
    /\ Len(tree.c) = 2
    /\ tree.c[1] \in UnknownAttributes
    /\ decoded.draft.service_name = Some(TextA)

(* C5.  Arity enforcement: a language-base-id-list attribute whose value   *)
(* is a sequence of a length n other than 3 makes decode fail with         *)
(* UnexpectedSequenceLen(id, expected 3, actual n), before any element is  *)
(* type-checked or stored in the draft.                                    *)
C5_ArityStep ==
    ( /\ AtAttribute
      /\ Current.id = LANGUAGE_BASE_ATTRIBUTE_ID_LIST
      /\ Current.child.kind = "Sequence"
      /\ Len(Current.child.c) # 3 )
    => /\ pc' = "returned"
       /\ decoded' = ReturnErr(UnexpectedSequenceLen(
              LANGUAGE_BASE_ATTRIBUTE_ID_LIST, 3, Len(Current.child.c)))
       /\ partial_configuration' = partial_configuration

C5_Arity == [][C5_ArityStep]_vars

(* A list of four elements, the first of them no UInt16, was refused for   *)
(* its length.                                                             *)
C5_Witness ==
    /\ FailedAtAttribute
    /\ Current.id = LANGUAGE_BASE_ATTRIBUTE_ID_LIST
    /\ Len(Current.child.c) = 4
    /\ Current.child.c[1].kind # "UInt16"
    /\ decoded.err = UnexpectedSequenceLen(LANGUAGE_BASE_ATTRIBUTE_ID_LIST, 3, 4)

(* C6.  UUID enforcement: a profile descriptor list shaped as a 1-element *)
(* sequence holding [UUID u, version] makes decode fail with               *)
(* UnexpectedUuid(id, expected the HID service class, actual u) whenever u *)
(* differs from the HID service class, and the draft's version is not      *)
(* written; when u equals it and version is a UInt16, the version of a     *)
(* draft that has none yet becomes that value.                             *)
C6_UuidStep ==
    ( /\ AtAttribute
      /\ Current.id = BLUETOOTH_PROFILE_DESCRIPTOR_LIST
      /\ Current.child.kind = "Sequence"
      /\ Len(Current.child.c) = 1
      /\ Current.child.c[1].kind = "Sequence"
      /\ Len(Current.child.c[1].c) = 2
      /\ Current.child.c[1].c[1].kind = "Uuid" )
    => LET u == Current.child.c[1].c[1].n
           version == Current.child.c[1].c[2]
       IN /\ u # ServiceClassHid =>
                 /\ pc' = "returned"
                 /\ decoded' = ReturnErr(UnexpectedUuid(
                        BLUETOOTH_PROFILE_DESCRIPTOR_LIST, ServiceClassHid, u))
                 /\ partial_configuration' = partial_configuration
          /\ ( /\ u = ServiceClassHid
               /\ version.kind = "UInt16"
               /\ ~is_some(partial_configuration.version) )
             => /\ pc' = "loop"
                /\ partial_configuration' =
                       [partial_configuration EXCEPT !.version = Some(version.n)]

C6_Uuid == [][C6_UuidStep]_vars

(* A profile descriptor list naming the public browse group was refused,   *)
(* and the draft has no version.                                           *)
C6_Witness ==
    /\ FailedAtAttribute
    /\ Current = [id |-> BLUETOOTH_PROFILE_DESCRIPTOR_LIST,
                  child |-> Profile(ServiceClassPublicBrowseGroup, TUInt16(257)).c[1]]
    /\ decoded.err = UnexpectedUuid(BLUETOOTH_PROFILE_DESCRIPTOR_LIST,
                                    ServiceClassHid, ServiceClassPublicBrowseGroup)
    /\ ~is_some(partial_configuration.version)

(* The attribute id and the value of each optional field. *)
OptionalId(field) ==
    CASE field = "service_name" -> SERVICE_NAME
      [] field = "service_description" -> SERVICE_DESCRIPTION
      [] field = "provider_name" -> PROVIDER_NAME
      [] field = "battery_power" -> HID_BATTERY_POWER
      [] field = "remote_wake" -> HID_REMOTE_WAKE
      [] field = "supervision_timeout" -> HID_SUPERVISION_TIMEOUT
      [] field = "normally_connectable" -> HID_NORMALLY_CONNECTABLE
      [] field = "ssr_host_max_latency" -> HID_SSR_HOST_MAX_LATENCY
      [] field = "ssr_host_min_timeout" -> HID_SSR_HOST_MIN_TIMEOUT

IsPresent(c, field) ==
    CASE field = "service_name" -> is_some(c.service_name)
      [] field = "service_description" -> is_some(c.service_description)
      [] field = "provider_name" -> is_some(c.provider_name)
      [] field = "battery_power" -> is_some(c.hid.battery_power)
      [] field = "remote_wake" -> is_some(c.hid.remote_wake)
      [] field = "supervision_timeout" -> is_some(c.hid.supervision_timeout)
      [] field = "normally_connectable" -> is_some(c.hid.normally_connectable)
      [] field = "ssr_host_max_latency" -> is_some(c.hid.ssr_host_max_latency)
      [] field = "ssr_host_min_timeout" -> is_some(c.hid.ssr_host_min_timeout)

(* The positions of the record's children that are attributes of this id. *)
AttributesOf(record, id) ==
    { i \in 1..Len(record.c) :
        record.c[i].kind = "Attribute" /\ record.c[i].n = id }

(* The record in tree is to_sdp_tag(config). *)
Encoded == pc \in { "decode", "returned", "finalized" }

(* The order of the attribute ids. *)
FixedOrder ==
    << SERVICE_CLASS_ID_LIST, PROTOCOL_DESCRIPTOR_LIST, BROWSE_GROUP_LIST,
       LANGUAGE_BASE_ATTRIBUTE_ID_LIST, ADDITIONAL_PROTOCOL_DESCRIPTOR_LISTS,
       SERVICE_NAME, SERVICE_DESCRIPTION, PROVIDER_NAME,
       BLUETOOTH_PROFILE_DESCRIPTOR_LIST, HID_PARSER_VERSION,
       HID_DEVICE_SUBCLASS, HID_COUNTRY_CODE, HID_VIRTUAL_CABLE,
       HID_RECONNECT_INITIATE, HID_DESCRIPTOR_LIST, HID_LANG_BASE_ATTRIBUTE,
       HID_BATTERY_POWER, HID_REMOTE_WAKE, HID_SUPERVISION_TIMEOUT,
       HID_NORMALLY_CONNECTABLE, HID_BOOT_DEVICE, HID_SSR_HOST_MAX_LATENCY,
       HID_SSR_HOST_MIN_TIMEOUT >>

OrderIds == { FixedOrder[i] : i \in 1..Len(FixedOrder) }
OptionalIds == { OptionalId(f) : f \in OptionalFields }
PositionOf(id) == CHOOSE i \in 1..Len(FixedOrder) : FixedOrder[i] = id

(* C7.  Optional-field omission: the record produced by to_sdp_tag(c)      *)
(* holds an attribute of an optional field's id if and only if the field   *)
(* is present in c, and holds nothing in place of an absent field: its     *)
(* children are the attributes of the non-optional ids and of the present  *)
(* fields, one each.                                                       *)
C7_OptionalOmission ==
    Encoded =>
        /\ \A f \in OptionalFields :
               Cardinality(AttributesOf(tree, OptionalId(f)))
                   = IF IsPresent(config, f) THEN 1 ELSE 0
        /\ Len(tree.c) = Cardinality(OrderIds \ OptionalIds)
                         + Cardinality({ f \in OptionalFields : IsPresent(config, f) })
        /\ \A i \in 1..Len(tree.c) :
               /\ tree.c[i].kind = "Attribute"
               /\ tree.c[i].n \in OrderIds

(* A Configuration with a service name and no battery power was encoded. *)
C7_Witness ==
    /\ Encoded
    /\ tree.kind = "Record"
    /\ ~IsPresent(config, "battery_power")
    /\ IsPresent(config, "service_name")
    /\ AttributesOf(tree, HID_BATTERY_POWER) = {}
    /\ AttributesOf(tree, SERVICE_NAME) # {}

(* C8.  Encode order: the attribute ids of the record produced by          *)
(* to_sdp_tag form a subsequence of the fixed order, in which every        *)
(* non-optional id appears exactly once.                                   *)
C8_EncodeOrder ==
    Encoded =>
        /\ \A i \in 1..Len(tree.c) :
               tree.c[i].kind = "Attribute" /\ tree.c[i].n \in OrderIds
        /\ \A i \in 1..(Len(tree.c) - 1) :
               PositionOf(tree.c[i].n) < PositionOf(tree.c[i + 1].n)
        /\ \A id \in OrderIds \ OptionalIds :
               Cardinality(AttributesOf(tree, id)) = 1

(* A Configuration with every optional field present was encoded to the    *)
(* whole fixed order.                                                      *)
C8_Witness ==
    /\ Encoded
    /\ Len(tree.c) = Len(FixedOrder)
    /\ \A i \in 1..Len(tree.c) : tree.c[i].n = FixedOrder[i]

(* C9.  Encoded HID language-base list: the HID language-base attribute    *)
(* emitted by to_sdp_tag is a sequence of 1 + len(additional_languages)    *)
(* pairs, the first (primary_language.hid_code, 0x0100), pair i+1 the      *)
(* (language, base) of additional_languages[i].                            *)
C9_LanguageBaseList ==
    Encoded =>
        /\ Cardinality(AttributesOf(tree, HID_LANG_BASE_ATTRIBUTE)) = 1
        /\ \A k \in AttributesOf(tree, HID_LANG_BASE_ATTRIBUTE) :
               LET value == tree.c[k].c[1]
                   pair(lang, base) == TSequence(<< TUInt16(lang), TUInt16(base) >>)
               IN /\ value.kind = "Sequence"
                  /\ Len(value.c) = 1 + Len(config.hid.additional_languages)
                  /\ value.c[1] = pair(config.primary_language.hid_code, 256)
                  /\ \A i \in 1..Len(config.hid.additional_languages) :
                         value.c[i + 1] =
                             pair(config.hid.additional_languages[i].language,
                                  config.hid.additional_languages[i].base)

(* A Configuration with an additional language that is not the primary    *)
(* pair was encoded.                                                       *)
C9_Witness ==
    /\ Encoded
    /\ cycles = 0
    /\ Len(config.hid.additional_languages) = 1
    /\ config.hid.additional_languages[1] = LanguageBase(1036, 512)
    /\ config.primary_language.hid_code = 1033
    /\ \E k \in AttributesOf(tree, HID_LANG_BASE_ATTRIBUTE) :
           Len(tree.c[k].c[1].c) = 2

(* One linear pass over the children from child i on: the first child in  *)
(* error, a non-Attribute or an attribute the match on its id refuses,     *)
(* ends it.                                                                *)
RECURSIVE LinearPass(_, _, _)
LinearPass(children, i, pcfg) ==
    IF i > Len(children) THEN ReturnOk(pcfg)
    ELSE IF children[i].kind # "Attribute"
         THEN ReturnErr(ExpectedAttribute(children[i]))
         ELSE LET r == DispatchAttribute(pcfg, children[i].n, children[i].c[1]) IN
              IF r.ok THEN LinearPass(children, i + 1, r.draft)
              ELSE ReturnErr(r.err)

NonAttributePositions(children) ==
    { i \in 1..Len(children) : children[i].kind # "Attribute" }

Min(S) == CHOOSE i \in S : \A j \in S : i <= j

(* C10, as claimed.  Fail-fast in one linear pass: the error decode        *)
(* returns is the one caused by the earliest child of the record that is   *)
(* in error, a non-Attribute child or a known attribute with a wrong       *)
(* shape, arity, UUID or a duplicate; later children have no influence.    *)
C10_OneLinearPass ==
    pc = "returned" /\ tree.kind = "Record" =>
        decoded = LinearPass(tree.c, 1, DefaultPartialConfiguration)

(* C10, amended.  Decode makes two passes, each fail-fast.  A record with  *)
(* a non-Attribute child fails with ExpectedAttribute of the earliest such *)
(* child, whatever its other children are.  A record of attributes only    *)
(* fails with the error of the earliest attribute in error: the record cut *)
(* after that attribute fails with the same error, and the record cut      *)
(* before it decodes.  No draft is returned for a record with a child in   *)
(* error.                                                                  *)
C10_TwoPasses ==
    pc = "returned" /\ tree.kind = "Record" =>
        IF NonAttributePositions(tree.c) # {}
        THEN decoded = ReturnErr(ExpectedAttribute(
                           tree.c[Min(NonAttributePositions(tree.c))]))
        ELSE /\ decoded = LinearPass(tree.c, 1, DefaultPartialConfiguration)
             /\ decoded.status = "err" =>
                    /\ idx <= Len(tree.c)
                    /\ from_sdp_xml(TRecord(SubSeq(tree.c, 1, idx))) = decoded
                    /\ from_sdp_xml(TRecord(SubSeq(tree.c, 1, idx - 1))).status = "ok"
             /\ decoded.status = "ok" =>
                    \A k \in 1..Len(tree.c) :
                        from_sdp_xml(TRecord(SubSeq(tree.c, 1, k))).status = "ok"

(* A record whose first child is a malformed attribute and whose second    *)
(* child is no attribute failed on the second.                             *)
C10_Witness ==
    /\ pc = "returned"
    /\ tree.kind = "Record"
    /\ Len(tree.c) = 2
    /\ tree.c[1] \in Malformed
    /\ tree.c[2] \in NonAttributes
    /\ decoded = ReturnErr(ExpectedAttribute(tree.c[2]))

---------------------------------------------------------------------------
(* Vocabulary for the entries of a HID descriptor list. *)

IsPayload(element) == element.kind \in { "Text", "RawText" }

(* The bytes a payload element stands for. *)
PayloadBytes(element) ==
    IF element.kind = "Text" THEN into_bytes(element.s) ELSE element.s

TypePositions(descriptor) ==
    { i \in 1..Len(descriptor) : descriptor[i].kind = "UInt8" }
PayloadPositions(descriptor) ==
    { i \in 1..Len(descriptor) : IsPayload(descriptor[i]) }

(* Element i is one the scan refuses: a second type byte, a second         *)
(* payload, or a tag of another kind.                                      *)
Refused(descriptor, i) ==
    \/ descriptor[i].kind = "UInt8" /\ \E j \in TypePositions(descriptor) : j < i
    \/ IsPayload(descriptor[i]) /\ \E j \in PayloadPositions(descriptor) : j < i
    \/ descriptor[i].kind # "UInt8" /\ ~IsPayload(descriptor[i])
RefusedPositions(descriptor) ==
    { i \in 1..Len(descriptor) : Refused(descriptor, i) }
RefusalError(element) ==
    CASE element.kind = "UInt8" -> DuplicateDescriptorId
      [] IsPayload(element) -> DuplicateDescriptorText
      [] OTHER -> UnexpectedTag(element)

(* What one entry yields: the error of the first element refused in scan   *)
(* order; with none refused, the missing part; else the class descriptor.  *)
EntryOutcome(descriptor) ==
    IF RefusedPositions(descriptor) # {}
    THEN Err(RefusalError(descriptor[Min(RefusedPositions(descriptor))]))
    ELSE IF TypePositions(descriptor) = {}
    THEN Err(MissingRecord("descriptor id"))
    ELSE IF PayloadPositions(descriptor) = {}
    THEN Err(MissingRecord("descriptor value"))
    ELSE Ok(ClassDescriptor(descriptor[Min(TypePositions(descriptor))].n,
             PayloadBytes(descriptor[Min(PayloadPositions(descriptor))])))

(* C12.  Descriptor-list entries: when the decoder reaches a HID           *)
(* descriptor list whose entries are sequences, each entry is scanned in   *)
(* element order.  An entry of exactly one UInt8 t and one Text or RawText *)
(* payload p, in either order, appends ClassDescriptor(t, bytes of p) to   *)
(* the draft's descriptor list and changes nothing else.  The first        *)
(* element refused ends the decode: a second UInt8 with                    *)
(* DuplicateDescriptorId, a second payload with DuplicateDescriptorText, a *)
(* tag of another kind with UnexpectedTag of that tag.  An entry scanned   *)
(* to its end without a UInt8 (the empty entry too) ends the decode with   *)
(* MissingRecord("descriptor id"), one with a UInt8 and no payload with    *)
(* MissingRecord("descriptor value").  The Text payload "e-acute" gives    *)
(* the bytes 195, 169, as the RawText payload of those bytes does.         *)
C12_EntryStep ==
    ( /\ AtAttribute
      /\ Current.id = HID_DESCRIPTOR_LIST
      /\ Current.child.kind = "Sequence"
      /\ \A k \in 1..Len(Current.child.c) : Current.child.c[k].kind = "Sequence" )
    =>
    LET entries == Current.child.c
        failing == { k \in 1..Len(entries) : ~EntryOutcome(entries[k].c).ok }
        before == Len(partial_configuration.hid_descriptor_list)
    IN
    IF failing = {}
    THEN /\ pc' = "loop"
         /\ idx' = idx + 1
         /\ partial_configuration' =
                [partial_configuration EXCEPT !.hid_descriptor_list =
                    @ \o [k \in 1..Len(entries) |-> EntryOutcome(entries[k].c).value]]
         /\ \A k \in 1..Len(entries) :
                TText(TextB) \in { entries[k].c[i] : i \in 1..Len(entries[k].c) } =>
                    partial_configuration'.hid_descriptor_list[before + k].data
                        = << 195, 169 >>
    ELSE /\ pc' = "returned"
         /\ decoded' = ReturnErr(EntryOutcome(entries[Min(failing)].c).err)

C12_DescriptorEntries == [][C12_EntryStep]_vars

(* A list of two entries, the first with its Text payload before its type  *)
(* byte, was decoded into two class descriptors.                           *)
C12_Witness ==
    /\ pc = "loop"
    /\ idx = 2
    /\ Len(attributes) = 1
    /\ attributes[1].id = HID_DESCRIPTOR_LIST
    /\ attributes[1].child.c =
           << TSequence(<< TText(TextB), TUInt8(35) >>), GoodDescriptor >>
    /\ partial_configuration.hid_descriptor_list =
           << ClassDescriptor(35, << 195, 169 >>), ClassDescriptor(34, << 5, 1 >>) >>

---------------------------------------------------------------------------
(* The optional fields of the Configuration c are those of the draft p. *)
OptionalsCopied(p, c) ==
    /\ c.service_name = p.service_name
    /\ c.service_description = p.service_description
    /\ c.provider_name = p.provider_name
    /\ c.hid.battery_power = p.hid_battery_power
    /\ c.hid.remote_wake = p.hid_remote_wake
    /\ c.hid.supervision_timeout = p.hid_supervision_timeout
    /\ c.hid.normally_connectable = p.hid_normally_connectable
    /\ c.hid.ssr_host_max_latency = p.hid_ssr_host_max_latency
    /\ c.hid.ssr_host_min_timeout = p.hid_ssr_host_min_timeout

(* C13.  Primary-language composition: finalizing a draft with every       *)
(* required scalar present and an empty HID language-base list fails with  *)
(* MissingRecord("HID language"); with a non-empty list it succeeds,       *)
(* whatever the two language codes are.  The Configuration returned has    *)
(* primary_language.iso_code = the draft's primary_language, hid_code =    *)
(* the language of the first entry of the draft's HID language-base list,  *)
(* and every optional field equal to the draft's.                          *)
C13_PrimaryLanguage ==
    pc = "finalized" =>
        LET p == partial_configuration IN
        /\ ( MissingRequired(p) = {} /\ p.hid_lang_base_id_list = << >> )
               => final = NotFinalized(MissingRecord("HID language"))
        /\ ( MissingRequired(p) = {} /\ p.hid_lang_base_id_list # << >> )
               => final.status = "ok"
        /\ final.status = "ok" =>
               /\ p.hid_lang_base_id_list # << >>
               /\ final.cfg.primary_language =
                      LanguageCode(unwrap(p.primary_language),
                                   p.hid_lang_base_id_list[1].language)
               /\ OptionalsCopied(p, final.cfg)

(* A draft with the ISO code of English and a HID language-base list of    *)
(* French, then English, with all optional fields set, was finalized.      *)
C13_Witness ==
    /\ pc = "finalized"
    /\ final.status = "ok"
    /\ partial_configuration.primary_language = Some(25966)
    /\ partial_configuration.hid_lang_base_id_list =
           << LanguageBase(1036, 512), LanguageBase(1033, 256) >>
    /\ final.cfg.primary_language = LanguageCode(25966, 1036)
    /\ is_some(partial_configuration.service_name)
    /\ is_some(final.cfg.hid.ssr_host_min_timeout)

---------------------------------------------------------------------------
(* The kind of tag each known attribute id takes as its value. *)
ExpectedKind(id) ==
    CASE id \in { SERVICE_NAME, SERVICE_DESCRIPTION, PROVIDER_NAME } -> "Text"
      [] id \in { HID_DEVICE_SUBCLASS, HID_COUNTRY_CODE } -> "UInt8"
      [] id \in { HID_VIRTUAL_CABLE, HID_RECONNECT_INITIATE, HID_BATTERY_POWER,
                  HID_REMOTE_WAKE, HID_NORMALLY_CONNECTABLE, HID_BOOT_DEVICE } ->
            "Boolean"
      [] id \in { HID_SUPERVISION_TIMEOUT, HID_SSR_HOST_MAX_LATENCY,
                  HID_SSR_HOST_MIN_TIMEOUT } -> "UInt16"
      [] id \in { LANGUAGE_BASE_ATTRIBUTE_ID_LIST, BLUETOOTH_PROFILE_DESCRIPTOR_LIST,
                  HID_DESCRIPTOR_LIST, HID_LANG_BASE_ATTRIBUTE } -> "Sequence"

(* The Expected<Shape> error of that kind. *)
ShapeError(id, tag) ==
    CASE ExpectedKind(id) = "Text" -> ExpectedText(id, tag)
      [] ExpectedKind(id) = "UInt8" -> ExpectedUInt8(id, tag)
      [] ExpectedKind(id) = "Boolean" -> ExpectedBoolean(id, tag)
      [] ExpectedKind(id) = "UInt16" -> ExpectedUInt16(id, tag)
      [] ExpectedKind(id) = "Sequence" -> ExpectedSequence(id, tag)

(* C14.  Type-mismatch errors: when the decoder reaches an attribute of a  *)
(* known id whose value is a tag of another kind than the id takes (Text   *)
(* for the three names, UInt8 for device subclass and country code,        *)
(* Boolean for the six flags, UInt16 for supervision timeout and the two   *)
(* SSR values, Sequence for the four lists), decode returns the            *)
(* Expected<Shape> error of the expected kind with that attribute's id and *)
(* the tag observed, and the draft is left as it was.                      *)
C14_ShapeStep ==
    ( /\ AtAttribute
      /\ Current.id \in KnownIds
      /\ Current.child.kind # ExpectedKind(Current.id) )
    =>
    /\ pc' = "returned"
    /\ decoded' = ReturnErr(ShapeError(Current.id, Current.child))
    /\ partial_configuration' = partial_configuration

C14_TypeMismatch == [][C14_ShapeStep]_vars

(* A Service Name holding a RawText, after a well-formed Service Name, was *)
(* refused as not a Text, and the first name is still in the draft.        *)
C14_Witness ==
    /\ FailedAtAttribute
    /\ tree.c = << TAttribute(SERVICE_NAME, TText(TextA)),
                   TAttribute(SERVICE_NAME, TRawText(<< 65 >>)) >>
    /\ decoded.err = ExpectedText(SERVICE_NAME, TRawText(<< 65 >>))
    /\ partial_configuration.service_name = Some(TextA)

---------------------------------------------------------------------------
(* The entries of every attribute of the given id among the children, in   *)
(* record order and, within one attribute, in entry order.                 *)
RECURSIVE ListEntries(_, _)
ListEntries(children, id) ==
    IF children = << >> THEN << >>
    ELSE ( IF Head(children).n = id THEN Head(children).c[1].c ELSE << >> )
         \o ListEntries(Tail(children), id)

DescriptorsOf(children) ==
    LET entries == ListEntries(children, HID_DESCRIPTOR_LIST) IN
    [k \in 1..Len(entries) |-> EntryOutcome(entries[k].c).value]

LanguageBasesOf(children) ==
    LET entries == ListEntries(children, HID_LANG_BASE_ATTRIBUTE) IN
    [k \in 1..Len(entries) |-> LanguageBase(entries[k].c[1].n, entries[k].c[2].n)]

(* A list attribute all of whose entries, if any, are well-formed. *)
WellFormedList(id, child) ==
    /\ child.kind = "Sequence"
    /\ \A k \in 1..Len(child.c) :
           /\ child.c[k].kind = "Sequence"
           /\ CASE id = HID_DESCRIPTOR_LIST -> EntryOutcome(child.c[k].c).ok
                [] id = HID_LANG_BASE_ATTRIBUTE ->
                       /\ Len(child.c[k].c) = 2
                       /\ child.c[k].c[1].kind = "UInt16"
                       /\ child.c[k].c[2].kind = "UInt16"
                [] OTHER -> FALSE

(* C15.  List accumulation: in the draft of a successful decode the        *)
(* descriptor list is the concatenation, in record order, of the entries   *)
(* of every HID descriptor list attribute of the record, each list in      *)
(* entry order, and the HID language-base list is likewise the             *)
(* concatenation of the entries of every HID language-base attribute.      *)
(* Decode never fails at a list attribute whose entries are well-formed,   *)
(* be it empty or a repetition of a list attribute seen before.            *)
C15_ListAccumulation ==
    /\ pc = "returned" /\ decoded.status = "ok" =>
           /\ decoded.draft.hid_descriptor_list = DescriptorsOf(tree.c)
           /\ decoded.draft.hid_lang_base_id_list = LanguageBasesOf(tree.c)
    /\ FailedAtAttribute /\ Current.id \in { HID_DESCRIPTOR_LIST, HID_LANG_BASE_ATTRIBUTE }
           => ~WellFormedList(Current.id, Current.child)

(* A record of two HID language-base attributes, of two entries and of     *)
(* one, was decoded into a list of three entries.                          *)
C15_Witness ==
    /\ pc = "returned"
    /\ decoded.status = "ok"
    /\ Len(tree.c) = 2
    /\ tree.c[1].n = HID_LANG_BASE_ATTRIBUTE
    /\ tree.c[2] = TAttribute(HID_LANG_BASE_ATTRIBUTE,
                       TSequence(<< TSequence(<< TUInt16(1033), TUInt16(256) >>) >>))
    /\ decoded.draft.hid_lang_base_id_list =
           << LanguageBase(1036, 512), LanguageBase(1033, 256),
              LanguageBase(1033, 256) >>
    /\ decoded.draft.hid_descriptor_list = << >>

---------------------------------------------------------------------------
(* The draft has its primary language and its encoding, or neither. *)
LanguageAndEncodingTogether(p) ==
    is_some(p.primary_language) <=> is_some(p.encoding)

(* C16.  Draft invariant: at every point of the decode loop, and in every  *)
(* draft decode returns, primary_language is set if and only if encoding   *)
(* is set, and then a language-base-id-list attribute has been handled;    *)
(* finalizing a draft returned by decode never fails with                  *)
(* MissingRecord("encoding").                                              *)
C16_DraftInvariant ==
    /\ LanguageAndEncodingTogether(partial_configuration)
    /\ is_some(partial_configuration.primary_language) =>
           \E k \in 1..(idx - 1) :
               attributes[k].id = LANGUAGE_BASE_ATTRIBUTE_ID_LIST
    /\ decoded.status = "ok" => LanguageAndEncodingTogether(decoded.draft)
    /\ pc = "finalized" => final.err # MissingRecord("encoding")

(* The draft decoded from a language-base-id list and a HID language-base  *)
(* list passed the checks of primary language, HID language and encoding,  *)
(* and was refused for its version.                                        *)
C16_Witness ==
    /\ pc = "finalized"
    /\ is_some(decoded.draft.primary_language)
    /\ is_some(decoded.draft.encoding)
    /\ decoded.draft.hid_lang_base_id_list # << >>
    /\ final = NotFinalized(MissingRecord("version"))

---------------------------------------------------------------------------
===========================================================================
